---- MODULE Spec2Model ----
(***************************************************************************)
(* Model of snoozr's preset engine (src/utils/presets.ts): the wake-time   *)
(* calculator, the title renderer, the preset normaliser and the preset    *)
(* store adapter over chrome.storage.sync.                                 *)
(*                                                                         *)
(* Conventions.                                                            *)
(*  - A JavaScript string that the code searches, splits or concatenates   *)
(*    (ids, title templates, "HH:MM" settings) is a sequence of one-       *)
(*    character strings.  Enumerated tags (kind, rule, icon) are strings.  *)
(*  - A JavaScript object is a record whose DOMAIN holds exactly the       *)
(*    properties that are present with a defined value; `x ?? y` and       *)
(*    `x?.f` become tests of Has(obj, field).                              *)
(*  - An instant is an integer number of milliseconds counted from local   *)
(*    midnight of Sunday 2025-07-27 (the code only ever adds to nowMs or   *)
(*    reads it through the local calendar, so the origin is immaterial).   *)
(*    The host zone has a fixed UTC offset over the modelled window        *)
(*    (27 July - 19 August 2025), so local wall-clock time is linear.      *)
(***************************************************************************)
EXTENDS Integers, Sequences, FiniteSets, TLC

\* ------------------------------------------------------------- bounds

\* nowMs ranges over local days 0..MaxNowDay after the origin (all seven
\* weekdays, and the July/August month boundary on day 5).
MaxNowDay == 6

\* The longest preset list handed to the normaliser.
MaxListLen == 2

\* ---------------------------------------------------------- constants

MsPerMinute == 60000
MsPerHour == 3600000
MsPerDay == 86400000

\* ----------------------------------------------------- string helpers

Has(obj, field) == field \in DOMAIN obj

Digits == <<"0","1","2","3","4","5","6","7","8","9">>

DigitOf(c) == (CHOOSE i \in 1..10 : Digits[i] = c) - 1

\* Number(s) for a string of decimal digits; Number("") is 0.
RECURSIVE Number(_)
Number(s) ==
  IF s = <<>> THEN 0
  ELSE 10 * Number(SubSeq(s, 1, Len(s) - 1)) + DigitOf(s[Len(s)])

\* String(n) for a non-negative integer.
RECURSIVE NumToString(_)
NumToString(n) ==
  IF n < 10 THEN <<Digits[n + 1]>>
  ELSE NumToString(n \div 10) \o <<Digits[(n % 10) + 1]>>

\* s.split(sep) for a one-character separator.
RECURSIVE Split(_, _)
Split(s, sep) ==
  IF \A i \in 1..Len(s) : s[i] # sep THEN <<s>>
  ELSE LET k == CHOOSE i \in 1..Len(s) :
                  s[i] = sep /\ \A j \in 1..(i - 1) : s[j] # sep
       IN <<SubSeq(s, 1, k - 1)>> \o Split(SubSeq(s, k + 1, Len(s)), sep)

\* Whether pat occurs in s at position i.
OccursAt(s, pat, i) ==
  /\ i >= 1
  /\ i + Len(pat) - 1 <= Len(s)
  /\ SubSeq(s, i, i + Len(pat) - 1) = pat

\* s.includes(pat)
Includes(s, pat) == \E i \in 1..Len(s) : OccursAt(s, pat, i)

\* s.replace(pat, rep) with a string pattern: the first occurrence only.
ReplaceFirst(s, pat, rep) ==
  IF ~Includes(s, pat) THEN s
  ELSE LET k == CHOOSE i \in 1..Len(s) :
                  OccursAt(s, pat, i) /\ \A j \in 1..(i - 1) : ~OccursAt(s, pat, j)
       IN SubSeq(s, 1, k - 1) \o rep \o SubSeq(s, k + Len(pat), Len(s))

\* s.replace(/pat/g, rep) for a literal pattern: every occurrence, left to
\* right, without rescanning the replacement.
RECURSIVE ReplaceAll(_, _, _)
ReplaceAll(s, pat, rep) ==
  IF ~Includes(s, pat) THEN s
  ELSE LET k == CHOOSE i \in 1..Len(s) :
                  OccursAt(s, pat, i) /\ \A j \in 1..(i - 1) : ~OccursAt(s, pat, j)
       IN SubSeq(s, 1, k - 1) \o rep
            \o ReplaceAll(SubSeq(s, k + Len(pat), Len(s)), pat, rep)

\* ------------------------------------------------- the Date built-in

\* Day index (0 = Sunday 2025-07-27) and time of day of an instant.
DayIndex(t) == t \div MsPerDay

TimeOfDay(t) == t % MsPerDay

\* Day index of the first day of the month that day di lies in
\* (1 July = -26, 1 August = 5, 1 September = 36).
FirstOfMonth(di) ==
  IF di < 5 THEN -26 ELSE IF di < 36 THEN 5 ELSE 36

\* Date.prototype.getDay: 0 = Sunday .. 6 = Saturday.
getDay(t) == DayIndex(t) % 7

\* Date.prototype.getDate: the day of the month, from 1.
getDate(t) == DayIndex(t) - FirstOfMonth(DayIndex(t)) + 1

\* Date.prototype.setDate(n): day n of the date's month, rolling over into
\* the following month when n exceeds the month's length; the time of day
\* is kept.
setDate(t, n) == (FirstOfMonth(DayIndex(t)) + n - 1) * MsPerDay + TimeOfDay(t)

\* Date.prototype.setHours(h, m, s, ms) on the date's local day.
setHours(t, h, m, s, ms) ==
  DayIndex(t) * MsPerDay + h * MsPerHour + m * MsPerMinute + s * 1000 + ms

\* const [h, m] = hhmm.split(':').map(Number)
ParseHM(hhmm) ==
  LET parts == Split(hhmm, ":")
  IN [h |-> Number(parts[1]), m |-> Number(parts[2])]

\* -------------------------------------------- calculatePresetWakeTime

\* A slip in WakeRelative: a factor 60 lost from the length of a day.
WakeRelativeShortDay(preset, nowMs) ==
  LET hours == IF Has(preset, "relative") /\ Has(preset.relative, "hours")
               THEN preset.relative.hours ELSE 0
      days == IF Has(preset, "relative") /\ Has(preset.relative, "days")
              THEN preset.relative.days ELSE 0
  IN nowMs + hours * 60 * 60 * 1000 + days * 24 * 60 * 1000

WakeRelative(preset, nowMs) ==
  LET hours == IF Has(preset, "relative") /\ Has(preset.relative, "hours")
               THEN preset.relative.hours ELSE 0
      days == IF Has(preset, "relative") /\ Has(preset.relative, "days")
              THEN preset.relative.days ELSE 0
  IN nowMs + hours * 60 * 60 * 1000 + days * 24 * 60 * 60 * 1000

\* A slip in WakeTonight: `<=` for `<`, so that an endOfDay reached exactly
\* now is pushed to tomorrow.
WakeTonightLte(settings, nowMs) ==
  LET hm == ParseHM(settings.endOfDay)
      today == setHours(nowMs, hm.h, hm.m, 0, 0)
  IN IF today <= nowMs
     THEN setHours(setDate(nowMs, getDate(nowMs) + 1), hm.h, hm.m, 0, 0)
     ELSE today

WakeTonight(settings, nowMs) ==
  LET hm == ParseHM(settings.endOfDay)
      today == setHours(nowMs, hm.h, hm.m, 0, 0)
  IN IF today < nowMs
     THEN setHours(setDate(nowMs, getDate(nowMs) + 1), hm.h, hm.m, 0, 0)
     ELSE today

\* A slip in WakeTomorrow: the 'tonight' pattern applied to startOfDay, so
\* that a startOfDay still ahead today is taken today.
WakeTomorrowIfPassed(settings, nowMs) ==
  LET hm == ParseHM(settings.startOfDay)
      today == setHours(nowMs, hm.h, hm.m, 0, 0)
  IN IF today <= nowMs
     THEN setHours(setDate(nowMs, getDate(nowMs) + 1), hm.h, hm.m, 0, 0)
     ELSE today

WakeTomorrow(settings, nowMs) ==
  LET tomorrow == setDate(nowMs, getDate(nowMs) + 1)
      hm == ParseHM(settings.startOfDay)
  IN setHours(tomorrow, hm.h, hm.m, 0, 0)

\* A slip in WakeWeekend: the target weekday read from startOfWeek.
WakeWeekendWrongDay(settings, nowMs) ==
  LET currentDay == getDay(nowMs)
      d0 == settings.startOfWeek - currentDay
      daysUntil == IF d0 < 0 THEN d0 + 7 ELSE d0
      hm == ParseHM(settings.startOfDay)
      targetDate == setHours(setDate(nowMs, getDate(nowMs) + daysUntil),
                             hm.h, hm.m, 0, 0)
  IN IF targetDate < nowMs
     THEN setDate(targetDate, getDate(targetDate) + 7)
     ELSE targetDate

\* A slip in WakeWeekend: the correction for a target already in the past
\* is left out.
WakeWeekendNoAdvance(settings, nowMs) ==
  LET currentDay == getDay(nowMs)
      d0 == settings.startOfWeekend - currentDay
      daysUntil == IF d0 < 0 THEN d0 + 7 ELSE d0
      hm == ParseHM(settings.startOfDay)
  IN setHours(setDate(nowMs, getDate(nowMs) + daysUntil), hm.h, hm.m, 0, 0)

WakeWeekend(settings, nowMs) ==
  LET currentDay == getDay(nowMs)
      d0 == settings.startOfWeekend - currentDay
      daysUntil == IF d0 < 0 THEN d0 + 7 ELSE d0
      hm == ParseHM(settings.startOfDay)
      targetDate == setHours(setDate(nowMs, getDate(nowMs) + daysUntil),
                             hm.h, hm.m, 0, 0)
  IN IF targetDate < nowMs
     THEN setDate(targetDate, getDate(targetDate) + 7)
     ELSE targetDate

\* A slip in WakeNextWeek: the weekend rule's `< 0` wrap for `<= 0`.
WakeNextWeekStrictWrap(settings, nowMs) ==
  LET currentDay == getDay(nowMs)
      d0 == settings.startOfWeek - currentDay
      daysUntil == IF d0 < 0 THEN d0 + 7 ELSE d0
      hm == ParseHM(settings.startOfDay)
      targetDate == setHours(setDate(nowMs, getDate(nowMs) + daysUntil),
                             hm.h, hm.m, 0, 0)
  IN IF targetDate < nowMs
     THEN setDate(targetDate, getDate(targetDate) + 7)
     ELSE targetDate

WakeNextWeek(settings, nowMs) ==
  LET currentDay == getDay(nowMs)
      d0 == settings.startOfWeek - currentDay
      daysUntil == IF d0 <= 0 THEN d0 + 7 ELSE d0
      hm == ParseHM(settings.startOfDay)
      targetDate == setHours(setDate(nowMs, getDate(nowMs) + daysUntil),
                             hm.h, hm.m, 0, 0)
  IN IF targetDate < nowMs
     THEN setDate(targetDate, getDate(targetDate) + 7)
     ELSE targetDate

calculatePresetWakeTime(preset, settings, nowMs) ==
  IF Has(preset, "kind") /\ preset.kind = "relative"
  THEN WakeRelative(preset, nowMs)
  ELSE IF ~Has(preset, "rule") THEN nowMs
  ELSE CASE preset.rule = "tonight" -> WakeTonight(settings, nowMs)
         [] preset.rule = "tomorrow" -> WakeTomorrow(settings, nowMs)
         [] preset.rule = "weekend" -> WakeWeekend(settings, nowMs)
         [] preset.rule = "next_week" -> WakeNextWeek(settings, nowMs)
         [] OTHER -> nowMs

\* --------------------------------------------------- buildPresetTitle

dayNames ==
  << <<"S","u","n","d","a","y">>,
     <<"M","o","n","d","a","y">>,
     <<"T","u","e","s","d","a","y">>,
     <<"W","e","d","n","e","s","d","a","y">>,
     <<"T","h","u","r","s","d","a","y">>,
     <<"F","r","i","d","a","y">>,
     <<"S","a","t","u","r","d","a","y">> >>

StrTonight == <<"T","o","n","i","g","h","t">>
StrTomorrowNight == <<"T","o","m","o","r","r","o","w"," ","N","i","g","h","t">>
StrThisWeekend == <<"T","h","i","s"," ","W","e","e","k","e","n","d">>
StrNextWeekend == <<"N","e","x","t"," ","W","e","e","k","e","n","d">>

\* isSameDate(a, b) of utils/datetime: the two dates fall on the same local
\* calendar day (year, month and day of month agree).
isSameDate(a, b) == DayIndex(a) = DayIndex(b)

\* A slip in TonightTemplate: the wake date compared with today.
TonightTemplateToday(template, wakeTime, nowMs) ==
  IF isSameDate(wakeTime, nowMs)
  THEN ReplaceFirst(template, StrTonight, StrTomorrowNight)
  ELSE template

\* The 'tonight' adjustment of the template.
TonightTemplate(template, wakeTime, nowMs) ==
  LET tomorrow == setDate(nowMs, getDate(nowMs) + 1)
  IN IF isSameDate(wakeTime, tomorrow)
     THEN ReplaceFirst(template, StrTonight, StrTomorrowNight)
     ELSE template

\* A slip in isCurrentlyInWeekend: the first day of the week counted as
\* part of the weekend.
isCurrentlyInWeekendInclusive(settings, currentDay) ==
  IF settings.startOfWeekend <= settings.startOfWeek
  THEN currentDay >= settings.startOfWeekend /\ currentDay <= settings.startOfWeek
  ELSE currentDay >= settings.startOfWeekend \/ currentDay <= settings.startOfWeek

isCurrentlyInWeekend(settings, currentDay) ==
  IF settings.startOfWeekend <= settings.startOfWeek
  THEN currentDay >= settings.startOfWeekend /\ currentDay < settings.startOfWeek
  ELSE currentDay >= settings.startOfWeekend \/ currentDay < settings.startOfWeek

\* The 'weekend' adjustment of the template.
WeekendTemplate(template, settings, nowMs) ==
  IF isCurrentlyInWeekend(settings, getDay(nowMs))
  THEN ReplaceFirst(template, StrThisWeekend, StrNextWeekend)
  ELSE template

\* The template after the dynamic wording adjustment; nowOpt is <<>> when
\* the caller passed no nowMs and <<nowMs>> otherwise.
adjustedTemplate(preset, settings, nowOpt) ==
  IF nowOpt # <<>> /\ Has(preset, "kind") /\ preset.kind = "rule"
  THEN LET nowMs == nowOpt[1]
           wakeTime == calculatePresetWakeTime(preset, settings, nowMs)
           t1 == IF Has(preset, "rule") /\ preset.rule = "tonight"
                 THEN TonightTemplate(preset.titleTemplate, wakeTime, nowMs)
                 ELSE preset.titleTemplate
       IN IF Has(preset, "rule") /\ preset.rule = "weekend"
          THEN WeekendTemplate(t1, settings, nowMs)
          ELSE t1
  ELSE preset.titleTemplate

\* The characters \w matches.
WordChars ==
  {"a","b","c","d","e","f","g","h","i","j","k","l","m","n","o","p","q","r",
   "s","t","u","v","w","x","y","z","A","B","C","D","E","F","G","H","I","J",
   "K","L","M","N","O","P","Q","R","S","T","U","V","W","X","Y","Z","0","1",
   "2","3","4","5","6","7","8","9","_"}

\* The own properties of the `replacements` object, as strings.
replacements(preset, settings) ==
  [endOfDay |-> settings.endOfDay,
   startOfDay |-> settings.startOfDay,
   startOfWeekendName |-> dayNames[settings.startOfWeekend + 1],
   startOfWeekName |-> dayNames[settings.startOfWeek + 1],
   hours |-> IF Has(preset, "relative") /\ Has(preset.relative, "hours")
             THEN NumToString(preset.relative.hours) ELSE <<>>,
   days |-> IF Has(preset, "relative") /\ Has(preset.relative, "days")
            THEN NumToString(preset.relative.days) ELSE <<>>]

ReplacementKeys ==
  [endOfDay |-> <<"e","n","d","O","f","D","a","y">>,
   startOfDay |-> <<"s","t","a","r","t","O","f","D","a","y">>,
   startOfWeekendName |->
     <<"s","t","a","r","t","O","f","W","e","e","k","e","n","d","N","a","m","e">>,
   startOfWeekName |->
     <<"s","t","a","r","t","O","f","W","e","e","k","N","a","m","e">>,
   hours |-> <<"h","o","u","r","s">>,
   days |-> <<"d","a","y","s">>]

\* Length of the run of \w characters of s that starts at position i.
RECURSIVE WordRun(_, _)
WordRun(s, i) ==
  IF i <= Len(s) /\ s[i] \in WordChars THEN 1 + WordRun(s, i + 1) ELSE 0

\* `replacements` is an object literal, so replacements[key] also finds the
\* properties it inherits from Object.prototype: these are their names.
ObjectPrototypeKeys ==
  { <<"c","o","n","s","t","r","u","c","t","o","r">>,
    <<"_","_","d","e","f","i","n","e","G","e","t","t","e","r","_","_">>,
    <<"_","_","d","e","f","i","n","e","S","e","t","t","e","r","_","_">>,
    <<"h","a","s","O","w","n","P","r","o","p","e","r","t","y">>,
    <<"_","_","l","o","o","k","u","p","G","e","t","t","e","r","_","_">>,
    <<"_","_","l","o","o","k","u","p","S","e","t","t","e","r","_","_">>,
    <<"i","s","P","r","o","t","o","t","y","p","e","O","f">>,
    <<"p","r","o","p","e","r","t","y","I","s","E","n","u","m","e","r","a","b","l","e">>,
    <<"t","o","S","t","r","i","n","g">>,
    <<"v","a","l","u","e","O","f">>,
    <<"_","_","p","r","o","t","o","_","_">>,
    <<"t","o","L","o","c","a","l","e","S","t","r","i","n","g">> }

StrProto == <<"_","_","p","r","o","t","o","_","_">>

StrConstructor == <<"c","o","n","s","t","r","u","c","t","o","r">>

\* String(v) of such an inherited value: the source text of a native
\* function, or '[object Object]' for the prototype object that __proto__
\* yields.
InheritedString(key) ==
  IF key = StrProto
  THEN <<"[","o","b","j","e","c","t"," ","O","b","j","e","c","t","]">>
  ELSE <<"f","u","n","c","t","i","o","n"," ">>
         \o (IF key = StrConstructor THEN <<"O","b","j","e","c","t">> ELSE key)
         \o <<"(",")"," ","{"," ","[","n","a","t","i","v","e"," ","c","o","d","e","]"," ","}">>

\* The callback of the token replace: String(replacements[key]), or the
\* token kept when replacements[key] is undefined.
ReplaceToken(key, repl) ==
  IF \E f \in DOMAIN ReplacementKeys : ReplacementKeys[f] = key
  THEN repl[CHOOSE f \in DOMAIN ReplacementKeys : ReplacementKeys[f] = key]
  ELSE IF key \in ObjectPrototypeKeys
  THEN InheritedString(key)
  ELSE <<"{">> \o key \o <<"}">>

\* template.replace(/\{(\w+)\}/g, callback)
RECURSIVE SubstituteTokens(_, _)
SubstituteTokens(s, repl) ==
  IF s = <<>> THEN <<>>
  ELSE LET n == WordRun(s, 2)
       IN IF s[1] = "{" /\ n > 0 /\ n + 2 <= Len(s) /\ s[n + 2] = "}"
          THEN ReplaceToken(SubSeq(s, 2, n + 1), repl)
                 \o SubstituteTokens(SubSeq(s, n + 3, Len(s)), repl)
          ELSE <<s[1]>> \o SubstituteTokens(Tail(s), repl)

buildPresetTitle(preset, settings, nowOpt) ==
  SubstituteTokens(adjustedTemplate(preset, settings, nowOpt),
                   replacements(preset, settings))

\* ---------------------------------------------- the preset catalog

DEFAULT_SNOOZE_PRESETS ==
  << [id |-> <<"l","a","t","e","r","_","t","o","d","a","y">>,
      titleTemplate |->
        <<"L","a","t","e","r"," ","(","i","n"," ","{","h","o","u","r","s","}","h",")">>,
      kind |-> "relative",
      relative |-> [hours |-> 1],
      icon |-> "clock"],
     [id |-> <<"t","o","n","i","g","h","t">>,
      titleTemplate |->
        <<"T","o","n","i","g","h","t"," ","(","a","t"," ",
          "{","e","n","d","O","f","D","a","y","}",")">>,
      kind |-> "rule",
      rule |-> "tonight",
      icon |-> "moon"],
     [id |-> <<"t","o","m","o","r","r","o","w">>,
      titleTemplate |->
        <<"T","o","m","o","r","r","o","w"," ","(",
          "{","s","t","a","r","t","O","f","D","a","y","}",")">>,
      kind |-> "rule",
      rule |-> "tomorrow",
      icon |-> "sunrise"],
     [id |-> <<"w","e","e","k","e","n","d">>,
      titleTemplate |->
        <<"T","h","i","s"," ","W","e","e","k","e","n","d"," ","(",
          "{","s","t","a","r","t","O","f","W","e","e","k","e","n","d","N","a","m","e","}",
          ","," ","{","s","t","a","r","t","O","f","D","a","y","}",")">>,
      kind |-> "rule",
      rule |-> "weekend",
      icon |-> "volleyball"],
     [id |-> <<"n","e","x","t","_","w","e","e","k">>,
      titleTemplate |->
        <<"N","e","x","t"," ","W","e","e","k"," ","(",
          "{","s","t","a","r","t","O","f","W","e","e","k","N","a","m","e","}",
          ","," ","{","s","t","a","r","t","O","f","D","a","y","}",")">>,
      kind |-> "rule",
      rule |-> "next_week",
      icon |-> "briefcase"] >>

\* ------------------------------------------------- normalizePreset

StrLaterToday == <<"l","a","t","e","r","_","t","o","d","a","y">>
StrLegacyToken == <<"{","l","a","t","e","r","H","o","u","r","s","}">>
StrHoursToken == <<"{","h","o","u","r","s","}">>
StrPreset == <<"P","r","e","s","e","t">>
StrCustomPrefix == <<"c","u","s","t","o","m","_">>

\* An object with the single property f, or the empty object when the
\* value is undefined (opt = <<>>).
Prop(f, opt) == IF opt = <<>> THEN <<>> ELSE f :> opt[1]

\* obj.f as <<>> (undefined) or <<value>>.
Get(obj, f) == IF Has(obj, f) THEN <<obj[f]>> ELSE <<>>

\* a ?? b on such optional values.
Coalesce(a, b) == IF a # <<>> THEN a ELSE b

\* DEFAULT_SNOOZE_PRESETS.find((d) => d.id === preset.id), as <<>> or <<d>>.
FindDefault(preset) ==
  LET hits == { i \in 1..Len(DEFAULT_SNOOZE_PRESETS) :
                  Has(preset, "id") /\ DEFAULT_SNOOZE_PRESETS[i].id = preset.id }
  IN IF hits = {} THEN <<>>
     ELSE <<DEFAULT_SNOOZE_PRESETS[CHOOSE i \in hits : \A j \in hits : i <= j]>>

\* def?.f
DefGet(def, f) == IF def = <<>> THEN <<>> ELSE Get(def[1], f)

\* A slip in PresetBase: the migration regex without its `g` flag, so that
\* only the first {laterHours} token is rewritten.
PresetBaseFirstOnly(preset, def, dateNow) ==
  LET id == Coalesce(Get(preset, "id"),
              Coalesce(DefGet(def, "id"),
                       <<StrCustomPrefix \o NumToString(dateNow)>>))
      template == Coalesce(Get(preset, "titleTemplate"),
                    Coalesce(DefGet(def, "titleTemplate"), <<StrPreset>>))
      kind == Coalesce(Get(preset, "kind"),
                Coalesce(DefGet(def, "kind"), <<"relative">>))
      icon == Coalesce(Get(preset, "icon"), DefGet(def, "icon"))
      migrated == IF template[1] # <<>> /\ Includes(template[1], StrLegacyToken)
                  THEN ReplaceFirst(template[1], StrLegacyToken, StrHoursToken)
                  ELSE template[1]
  IN Prop("id", id) @@ Prop("titleTemplate", <<migrated>>)
       @@ Prop("kind", kind) @@ Prop("icon", icon)

\* The `base` object with the template migrated; dateNow is Date.now().
PresetBase(preset, def, dateNow) ==
  LET id == Coalesce(Get(preset, "id"),
              Coalesce(DefGet(def, "id"),
                       <<StrCustomPrefix \o NumToString(dateNow)>>))
      template == Coalesce(Get(preset, "titleTemplate"),
                    Coalesce(DefGet(def, "titleTemplate"), <<StrPreset>>))
      kind == Coalesce(Get(preset, "kind"),
                Coalesce(DefGet(def, "kind"), <<"relative">>))
      icon == Coalesce(Get(preset, "icon"), DefGet(def, "icon"))
      migrated == IF template[1] # <<>> /\ Includes(template[1], StrLegacyToken)
                  THEN ReplaceAll(template[1], StrLegacyToken, StrHoursToken)
                  ELSE template[1]
  IN Prop("id", id) @@ Prop("titleTemplate", <<migrated>>)
       @@ Prop("kind", kind) @@ Prop("icon", icon)

\* A slip in NormalizeRelative: the relative object copied (`...rel`) rather
\* than rebuilt, so that a useSettingsLaterHours flag survives.
NormalizeRelativeKeepsFlag(base, preset, def, legacyLaterHours) ==
  LET rel == Coalesce(Get(preset, "relative"),
               Coalesce(DefGet(def, "relative"), << <<>> >>))[1]
      relHours == Get(rel, "hours")
      days == Get(rel, "days")
      hadLegacyFlag == Has(rel, "useSettingsLaterHours")
      hours == IF \/ (/\ Has(preset, "id") /\ preset.id = StrLaterToday
                      /\ relHours = <<>>)
                  \/ hadLegacyFlag
               THEN Coalesce(legacyLaterHours, <<1>>)
               ELSE relHours
  IN ("kind" :> "relative")
       @@ ("relative" :> (Prop("hours", hours) @@ Prop("days", days)
                            @@ Prop("useSettingsLaterHours",
                                    Get(rel, "useSettingsLaterHours"))))
       @@ base

\* The relative branch: { ...base, kind: 'relative', relative: { hours, days } }
NormalizeRelative(base, preset, def, legacyLaterHours) ==
  LET rel == Coalesce(Get(preset, "relative"),
               Coalesce(DefGet(def, "relative"), << <<>> >>))[1]
      relHours == Get(rel, "hours")
      days == Get(rel, "days")
      hadLegacyFlag == Has(rel, "useSettingsLaterHours")
      hours == IF \/ (/\ Has(preset, "id") /\ preset.id = StrLaterToday
                      /\ relHours = <<>>)
                  \/ hadLegacyFlag
               THEN Coalesce(legacyLaterHours, <<1>>)
               ELSE relHours
  IN ("kind" :> "relative")
       @@ ("relative" :> (Prop("hours", hours) @@ Prop("days", days)))
       @@ base

\* A slip in NormalizeRule: `kind: 'rule'` left out of the returned object,
\* so that the kind resolved into base (possibly 'relative') is kept.
NormalizeRuleKeepsBaseKind(base, preset, def) ==
  ("rule" :> Coalesce(Get(preset, "rule"),
               Coalesce(DefGet(def, "rule"), <<"tomorrow">>))[1])
    @@ base

\* A slip in NormalizeRule: the input spread into the result (`...preset`),
\* so that a stale relative payload survives.
NormalizeRuleKeepsPayload(base, preset, def) ==
  ("kind" :> "rule")
    @@ ("rule" :> Coalesce(Get(preset, "rule"),
                    Coalesce(DefGet(def, "rule"), <<"tomorrow">>))[1])
    @@ base
    @@ Prop("relative", Get(preset, "relative"))

\* The rule branch: { ...base, kind: 'rule', rule }
NormalizeRule(base, preset, def) ==
  ("kind" :> "rule")
    @@ ("rule" :> Coalesce(Get(preset, "rule"),
                    Coalesce(DefGet(def, "rule"), <<"tomorrow">>))[1])
    @@ base

\* A slip in normalizePreset: the legacy override applied to every
\* later_today entry, whether or not it has hours of its own.
normalizePresetAlwaysLegacy(preset, legacyLaterHours, dateNow) ==
  LET def == FindDefault(preset)
      base == PresetBase(preset, def, dateNow)
  IN IF Coalesce(Get(preset, "kind"), DefGet(def, "kind")) = <<"relative">>
     THEN IF Has(preset, "id") /\ preset.id = StrLaterToday
          THEN NormalizeRelative(base, ("relative" :> <<>>) @@ preset,
                                 def, legacyLaterHours)
          ELSE NormalizeRelative(base, preset, def, legacyLaterHours)
     ELSE NormalizeRule(base, preset, def)

normalizePreset(preset, legacyLaterHours, dateNow) ==
  LET def == FindDefault(preset)
      base == PresetBase(preset, def, dateNow)
  IN IF Coalesce(Get(preset, "kind"), DefGet(def, "kind")) = <<"relative">>
     THEN NormalizeRelative(base, preset, def, legacyLaterHours)
     ELSE NormalizeRule(base, preset, def)

\* A slip in normalizeSnoozePresets: the catalog entries whose id is
\* missing from the list are appended to the result.
normalizeSnoozePresetsAppending(presets, legacyLaterHours, dateNow) ==
  LET merged == [i \in 1..Len(presets) |->
                   normalizePreset(presets[i], legacyLaterHours, dateNow)]
      missing == SelectSeq(DEFAULT_SNOOZE_PRESETS,
                   LAMBDA d : \A i \in 1..Len(merged) : merged[i].id # d.id)
  IN merged \o missing

normalizeSnoozePresets(presets, legacyLaterHours, dateNow) ==
  [i \in 1..Len(presets) |-> normalizePreset(presets[i], legacyLaterHours, dateNow)]

\* ------------------------------------------- the preset store adapter

\* Values held by chrome.storage.sync are JSON values, tagged with their
\* type by the name of the one field that holds them: null, a boolean, a
\* number, a string, an object (a record of untagged properties, as
\* everywhere in this model, except that the properties of the settings
\* object are tagged values) or an array of tagged values.
JsNull == [null |-> TRUE]

JsBoolean(b) == [boolean |-> b]

JsNumber(n) == [number |-> n]

JsString(str) == [string |-> str]

JsObject(obj) == [object |-> obj]

JsArray(items) == [array |-> items]

\* The type tag of a tagged value.
TypeOf(v) == CHOOSE t \in DOMAIN v : TRUE

\* A SnoozePreset[] as the JSON value it is stored as.
PresetsToJs(presets) ==
  JsArray([i \in 1..Len(presets) |-> JsObject(presets[i])])

\* Number(v) for v undefined (<<>>) or <<a tagged value>>: <<>> stands for
\* NaN.  A string converts when it consists of decimal digits (the empty
\* string gives 0); signs, fractions, exponents and blanks are not modelled.
ToNumber(opt) ==
  IF opt = <<>> THEN <<>>
  ELSE LET v == opt[1]
       IN CASE TypeOf(v) = "number" -> <<v.number>>
            [] TypeOf(v) = "null" -> <<0>>
            [] TypeOf(v) = "boolean" -> <<IF v.boolean THEN 1 ELSE 0>>
            [] TypeOf(v) = "string" ->
                 IF \A i \in 1..Len(v.string) :
                      \E d \in 1..10 : Digits[d] = v.string[i]
                 THEN <<Number(v.string)>> ELSE <<>>
            [] OTHER -> <<>>

\* result.snoozePresets ?? DEFAULT_SNOOZE_PRESETS
StoredOrDefault(result) ==
  IF Has(result, "snoozePresets") /\ TypeOf(result.snoozePresets) # "null"
  THEN result.snoozePresets
  ELSE PresetsToJs(DEFAULT_SNOOZE_PRESETS)

\* Number(result.settings?.laterHours), NaN turned into undefined.
LegacyLaterHours(result) ==
  ToNumber(IF /\ Has(result, "settings")
              /\ TypeOf(result.settings) = "object"
              /\ Has(result.settings.object, "laterHours")
           THEN <<result.settings.object.laterHours>>
           ELSE <<>>)

\* Whether normalizeSnoozePresets(stored, ...) throws a TypeError:
\* stored.map is not a function unless stored is an array, and
\* normalizePreset reads preset.id, which throws on null.
NormalizeThrows(stored) ==
  \/ TypeOf(stored) # "array"
  \/ \E i \in 1..Len(stored.array) : TypeOf(stored.array[i]) = "null"

\* An array entry as the normaliser sees it: an object by its properties,
\* a primitive as an object without any of the properties read.
AsPreset(item) == IF TypeOf(item) = "object" THEN item.object ELSE <<>>

\* The entries object handed to chrome.storage.sync.set by a slip in
\* setSnoozePresets: the list normalised before it is written.
SetEntriesNormalized(presets) ==
  [snoozePresets |-> PresetsToJs(normalizeSnoozePresets(presets, <<>>, 0))]

\* The entries object handed to chrome.storage.sync.set.
SetEntries(presets) == [snoozePresets |-> PresetsToJs(presets)]

\* ------------------------------------- inputs of calculator and renderer

\* Presets beyond the catalog: the relative preset of the unit tests, a
\* relative preset without a `relative` object that carries a stale `rule`,
\* a 'tonight' rule preset whose template shows {hours} and that carries a
\* stale `relative` object, a rule preset with no rule, a relative preset
\* of zero hours and zero days, and a 'tomorrow' preset whose template holds
\* a token outside the mapping and a token named like an Object.prototype
\* member.
CustomPresets ==
  { [id |-> <<"r","e","l","_","1">>,
     titleTemplate |-> <<"I","n"," ","{","h","o","u","r","s","}","h">>,
     kind |-> "relative",
     relative |-> [hours |-> 2, days |-> 1]],
    [id |-> <<"r","e","l","_","2">>,
     titleTemplate |-> <<"S","n","o","o","z","e"," ","{","d","a","y","s","}","d">>,
     kind |-> "relative",
     rule |-> "tonight"],
    [id |-> <<"c","u","s","t","o","m">>,
     titleTemplate |->
       <<"T","o","n","i","g","h","t"," ","i","n"," ","{","h","o","u","r","s","}","h">>,
     kind |-> "rule",
     rule |-> "tonight",
     relative |-> [hours |-> 3]],
    [id |-> <<"c","u","s","t","o","m">>,
     titleTemplate |-> <<"S","o","m","e","d","a","y">>,
     kind |-> "rule"],
    [id |-> <<"r","e","l","_","0">>,
     titleTemplate |-> <<"N","o","w">>,
     kind |-> "relative",
     relative |-> [hours |-> 0, days |-> 0]],
    [id |-> <<"c","u","s","t","_","t">>,
     titleTemplate |-> <<"{","f","o","o","}"," ","{","v","a","l","u","e","O","f","}">>,
     kind |-> "rule",
     rule |-> "tomorrow"] }

PresetInputs ==
  {DEFAULT_SNOOZE_PRESETS[i] : i \in 1..Len(DEFAULT_SNOOZE_PRESETS)}
    \cup CustomPresets

\* startOfDay / endOfDay pairs: the unit tests' 09:08 with 20:00, and the
\* extremes 00:00 with 23:59.
DayProfiles ==
  { [startOfDay |-> <<"0","9",":","0","8">>, endOfDay |-> <<"2","0",":","0","0">>],
    [startOfDay |-> <<"0","0",":","0","0">>, endOfDay |-> <<"2","3",":","5","9">>] }

SettingsInputs ==
  { [startOfDay |-> p.startOfDay, endOfDay |-> p.endOfDay,
     startOfWeek |-> sw, startOfWeekend |-> se] :
      p \in DayProfiles, sw \in 0..6, se \in 0..6 }

\* Times of day of nowMs: midnight, and the instants just before, at and
\* just after 09:08, and at and just after 20:00.
NowTimes ==
  { 0,
    9 * MsPerHour + 8 * MsPerMinute - 1,
    9 * MsPerHour + 8 * MsPerMinute,
    9 * MsPerHour + 8 * MsPerMinute + 1,
    20 * MsPerHour,
    20 * MsPerHour + 1 }

NowInputs == { d * MsPerDay + tod : d \in 0..MaxNowDay, tod \in NowTimes }

\* ------------------------------------------------------------- state

VARIABLES
  preset,        \* the preset handed to the calculator and the renderer
  settings,      \* the user's SnoozrSettings
  nowMs,         \* the current instant
  wakeTime,      \* <<>> or <<result of calculatePresetWakeTime>>
  title,         \* <<>> or <<result of buildPresetTitle>>
  titleWithNow,  \* whether buildPresetTitle was called with nowMs
  rawPresets,    \* the preset list handed to the normaliser
  legacyHours,   \* the legacy override of the first pass: <<>> or <<n>>
  normalized,    \* <<>> or <<the normalised list>>
  legacyHours2,  \* the legacy override of the second pass
  renormalized,  \* <<>> or <<the normalised list, normalised again>>
  store,         \* the content of chrome.storage.sync: key -> tagged value
  loadState,     \* getSnoozePresets: "idle", "pending", "resolved", "threw"
  getResult,     \* <<>> or <<the result object handed to the get callback>>
  loaded,        \* <<>> or <<the list getSnoozePresets resolved with>>
  saveState,     \* setSnoozePresets: "idle", "pending", "resolved"
  saveArg,       \* <<>> or <<the list handed to setSnoozePresets>>
  setCalls,      \* the entries objects handed to chrome.storage.sync.set
  setState       \* the store's write: "none", "issued", "applied", "done"

calcVars == <<preset, settings, nowMs, wakeTime, title, titleWithNow>>

normVars == <<rawPresets, legacyHours, normalized, legacyHours2, renormalized>>

storeVars ==
  <<store, loadState, getResult, loaded, saveState, saveArg, setCalls, setState>>

vars == <<calcVars, normVars, storeVars>>

\* The store adapter is not in use.
StoreIdle ==
  /\ store = <<>>
  /\ loadState = "idle"
  /\ getResult = <<>>
  /\ loaded = <<>>
  /\ saveState = "idle"
  /\ saveArg = <<>>
  /\ setCalls = <<>>
  /\ setState = "none"

\* The calculator and the renderer: the normaliser is not in use.
Init ==
  /\ preset \in PresetInputs
  /\ settings \in SettingsInputs
  /\ nowMs \in NowInputs
  /\ wakeTime = <<>>
  /\ title = <<>>
  /\ titleWithNow = FALSE
  /\ rawPresets = <<>>
  /\ legacyHours = <<>>
  /\ normalized = <<>>
  /\ legacyHours2 = <<>>
  /\ renormalized = <<>>
  /\ StoreIdle

\* A caller computes the wake time of the preset.
CalculateWakeTime ==
  /\ wakeTime = <<>>
  /\ wakeTime' = <<calculatePresetWakeTime(preset, settings, nowMs)>>
  /\ UNCHANGED <<preset, settings, nowMs, title, titleWithNow, normVars, storeVars>>

\* A caller renders the title, with nowMs (dynamic wording) or without.
BuildTitle ==
  /\ title = <<>>
  /\ \E withNow \in BOOLEAN :
       /\ titleWithNow' = withNow
       /\ title' = <<buildPresetTitle(preset, settings,
                                      IF withNow THEN <<nowMs>> ELSE <<>>)>>
  /\ UNCHANGED <<preset, settings, nowMs, wakeTime, normVars, storeVars>>

Next == CalculateWakeTime \/ BuildTitle

Spec == Init /\ [][Next]_vars

\* ------------------------------------------- the normaliser at work

\* Preset objects as they may come out of storage: the catalog's entries,
\* the legacy later_today entry of the unit tests, entries with only an id,
\* entries with a legacy flag, with no id, with no kind, with a kind that
\* contradicts the catalog, with a stale inactive payload, and with a kind
\* that is neither 'relative' nor 'rule'.
RawPresetInputs ==
  {DEFAULT_SNOOZE_PRESETS[i] : i \in 1..Len(DEFAULT_SNOOZE_PRESETS)}
    \cup
  { [id |-> StrLaterToday,
     titleTemplate |->
       <<"L","a","t","e","r"," ","(","i","n"," ",
         "{","l","a","t","e","r","H","o","u","r","s","}","h",")">>,
     kind |-> "relative",
     relative |-> <<>>,
     icon |-> "clock"],
    [id |-> StrLaterToday],
    [id |-> <<"c","u","s","t","o","m">>,
     titleTemplate |->
       <<"I","n"," ","{","l","a","t","e","r","H","o","u","r","s","}","h",","," ",
         "{","l","a","t","e","r","H","o","u","r","s","}">>,
     kind |-> "relative",
     relative |-> [useSettingsLaterHours |-> TRUE, hours |-> 5, days |-> 2]],
    [titleTemplate |-> <<"S","o","m","e","d","a","y">>,
     relative |-> [hours |-> 2]],
    [id |-> <<"c","u","s","t","o","m">>, rule |-> "weekend"],
    [id |-> <<"t","o","n","i","g","h","t">>,
     kind |-> "rule",
     relative |-> [hours |-> 3]],
    [id |-> <<"r","e","l","_","1">>,
     titleTemplate |-> <<"I","n"," ","{","h","o","u","r","s","}","h">>,
     kind |-> "relative",
     rule |-> "tonight",
     relative |-> [days |-> 1]],
    [id |-> <<"w","e","e","k","e","n","d">>, kind |-> "relative"],
    [id |-> <<"c","u","s","t","o","m">>,
     titleTemplate |-> <<"W","e","e","k","e","n","d">>,
     kind |-> "rule",
     icon |-> "star"],
    [id |-> <<"c","u","s","t","o","m">>,
     kind |-> "later",
     relative |-> [hours |-> 1]],
    <<>> }

\* The lists of at most MaxListLen such presets.
RawListInputs ==
  UNION { [1..n -> RawPresetInputs] : n \in 0..MaxListLen }

\* The legacy override: absent, or a number of hours.
LegacyInputs == { <<>>, <<0>>, <<3>> }

\* Values of Date.now() at a normalisation.
DateNowInputs == { 7, 1000 }

\* The normaliser: the calculator and the renderer are not in use.
InitNorm ==
  /\ preset = DEFAULT_SNOOZE_PRESETS[1]
  /\ settings = [startOfDay |-> <<"0","9",":","0","8">>,
                 endOfDay |-> <<"2","0",":","0","0">>,
                 startOfWeek |-> 1, startOfWeekend |-> 6]
  /\ nowMs = 0
  /\ wakeTime = <<>>
  /\ title = <<>>
  /\ titleWithNow = FALSE
  /\ rawPresets \in RawListInputs
  /\ legacyHours \in LegacyInputs
  /\ normalized = <<>>
  /\ legacyHours2 = <<>>
  /\ renormalized = <<>>
  /\ StoreIdle

\* normalizeSnoozePresets(rawPresets, legacyHours)
Normalize ==
  /\ normalized = <<>>
  /\ \E dateNow \in DateNowInputs :
       normalized' = <<normalizeSnoozePresets(rawPresets, legacyHours, dateNow)>>
  /\ UNCHANGED <<calcVars, rawPresets, legacyHours, legacyHours2, renormalized, storeVars>>

\* normalizeSnoozePresets(the normalised list, legacyHours2), at a later
\* time and with an override that may have changed.
Renormalize ==
  /\ normalized # <<>>
  /\ renormalized = <<>>
  /\ \E dateNow \in DateNowInputs, legacy \in LegacyInputs :
       /\ legacyHours2' = legacy
       /\ renormalized' = <<normalizeSnoozePresets(normalized[1], legacy, dateNow)>>
  /\ UNCHANGED <<calcVars, rawPresets, legacyHours, normalized, storeVars>>

NextNorm == Normalize \/ Renormalize

SpecNorm == InitNorm /\ [][NextNorm]_vars

\* ------------------------------------------- the store adapter at work

\* Preset objects found in storage: taken from RawPresetInputs, the legacy
\* later_today entry of the unit tests, the catalog's later_today and
\* tonight, the flagged custom entry, the entry without id and kind, and
\* the relative entry with a stale rule.
StoredPresetInputs ==
  { p \in RawPresetInputs :
      \/ p = DEFAULT_SNOOZE_PRESETS[1]
      \/ p = DEFAULT_SNOOZE_PRESETS[2]
      \/ (Has(p, "titleTemplate") /\ Includes(p.titleTemplate, StrLegacyToken))
      \/ (Has(p, "titleTemplate") /\ ~Has(p, "id"))
      \/ (Has(p, "id") /\ p.id = <<"r","e","l","_","1">>) }

LegacyLaterToday ==
  CHOOSE p \in StoredPresetInputs :
    Has(p, "id") /\ p.id = StrLaterToday /\ Includes(p.titleTemplate, StrLegacyToken)

StoredListInputs ==
  UNION { [1..n -> StoredPresetInputs] : n \in 0..MaxListLen }

\* The `snoozePresets` entry of the store: absent (<<>>), a well-formed
\* list, or malformed: null, a string, a list with a null entry, a list
\* with a number entry.
SnoozePresetsInputs ==
  { <<>>,
    <<JsNull>>,
    <<JsString(<<"o","o","p","s">>)>>,
    <<JsArray(<<JsObject(LegacyLaterToday), JsNull>>)>>,
    <<JsArray(<<JsNumber(5)>>)>> }
    \cup { <<PresetsToJs(l)>> : l \in StoredListInputs }

\* The `settings` entry of the store: absent, without laterHours, or with a
\* laterHours that is a number, a string of digits, another string, a
\* boolean or null.
StoredSettingsInputs ==
  { <<>>, <<JsObject(<<>>)>> }
    \cup { <<JsObject([laterHours |-> v])>> :
             v \in { JsNumber(3), JsString(<<"5">>), JsString(<<"s","o","o","n">>),
                     JsBoolean(TRUE), JsNull } }

\* The elements of a finite set in some order.
RECURSIVE SeqOf(_)
SeqOf(S) ==
  IF S = {} THEN <<>>
  ELSE LET x == CHOOSE y \in S : TRUE
       IN <<x>> \o SeqOf(S \ {x})

\* Lists as a caller holds them after a load: every stored shape, normalised
\* under each legacy override.
LoadedListInputs ==
  { normalizeSnoozePresets(SeqOf(StoredPresetInputs), a, 7) : a \in LegacyInputs }

\* The lists a caller saves: the empty list, the catalog's tonight alone,
\* a list that is not in normal form, and lists that came out of a load.
SaveListInputs ==
  { <<>>, <<DEFAULT_SNOOZE_PRESETS[2]>>, <<LegacyLaterToday>> }
    \cup LoadedListInputs

\* The store adapter: the store holds some content, no call is under way.
InitStore ==
  /\ preset = DEFAULT_SNOOZE_PRESETS[1]
  /\ settings = [startOfDay |-> <<"0","9",":","0","8">>,
                 endOfDay |-> <<"2","0",":","0","0">>,
                 startOfWeek |-> 1, startOfWeekend |-> 6]
  /\ nowMs = 0
  /\ wakeTime = <<>>
  /\ title = <<>>
  /\ titleWithNow = FALSE
  /\ rawPresets = <<>>
  /\ legacyHours = <<>>
  /\ normalized = <<>>
  /\ legacyHours2 = <<>>
  /\ renormalized = <<>>
  /\ \E sp \in SnoozePresetsInputs, st \in StoredSettingsInputs :
       store = Prop("snoozePresets", sp) @@ Prop("settings", st)
  /\ loadState = "idle"
  /\ getResult = <<>>
  /\ loaded = <<>>
  /\ saveState = "idle"
  /\ saveArg = <<>>
  /\ setCalls = <<>>
  /\ setState = "none"

\* A caller calls getSnoozePresets(): the promise is created and
\* chrome.storage.sync.get is issued.
getSnoozePresets ==
  /\ loadState = "idle"
  /\ loadState' = "pending"
  /\ UNCHANGED <<calcVars, normVars, store, getResult, loaded,
                 saveState, saveArg, setCalls, setState>>

\* The store reads the two keys and invokes the get callback.  The callback
\* normalises the stored list (rawPresets, legacyHours and normalized record
\* that call) and resolves the promise with the outcome; when the
\* normaliser throws, resolve is never reached ("threw": the promise stays
\* pending for good, or rejects if the store ran the callback inside the
\* promise's executor).
GetCallback ==
  /\ loadState = "pending"
  /\ getResult' = <<store>>
  /\ LET stored == StoredOrDefault(store)
     IN IF NormalizeThrows(stored)
        THEN /\ loadState' = "threw"
             /\ UNCHANGED <<normVars, loaded>>
        ELSE \E dateNow \in DateNowInputs :
               LET presets == [i \in 1..Len(stored.array) |-> AsPreset(stored.array[i])]
                   legacy == LegacyLaterHours(store)
                   result == normalizeSnoozePresets(presets, legacy, dateNow)
               IN /\ rawPresets' = presets
                  /\ legacyHours' = legacy
                  /\ normalized' = <<result>>
                  /\ loaded' = <<result>>
                  /\ loadState' = "resolved"
                  /\ UNCHANGED <<legacyHours2, renormalized>>
  /\ UNCHANGED <<calcVars, store, saveState, saveArg, setCalls, setState>>

\* A caller calls setSnoozePresets(list): the promise is created and
\* chrome.storage.sync.set is issued.
setSnoozePresets ==
  /\ saveState = "idle"
  /\ \E list \in SaveListInputs :
       /\ saveArg' = <<list>>
       /\ setCalls' = Append(setCalls, SetEntries(list))
  /\ setState' = "issued"
  /\ saveState' = "pending"
  /\ UNCHANGED <<calcVars, normVars, store, loadState, getResult, loaded>>

\* A caller calls resetSnoozePresets(): setSnoozePresets of the catalog.
resetSnoozePresets ==
  /\ saveState = "idle"
  /\ saveArg' = <<DEFAULT_SNOOZE_PRESETS>>
  /\ setCalls' = Append(setCalls, SetEntries(DEFAULT_SNOOZE_PRESETS))
  /\ setState' = "issued"
  /\ saveState' = "pending"
  /\ UNCHANGED <<calcVars, normVars, store, loadState, getResult, loaded>>

\* The store applies the write: the keys of the entries object are set, the
\* other keys are kept.
StoreWrite ==
  /\ setState = "issued"
  /\ store' = setCalls[Len(setCalls)] @@ store
  /\ setState' = "applied"
  /\ UNCHANGED <<calcVars, normVars, loadState, getResult, loaded,
                 saveState, saveArg, setCalls>>

\* The store invokes the completion callback of the write, which resolves
\* the promise of setSnoozePresets.
SetCallback ==
  /\ setState = "applied"
  /\ setState' = "done"
  /\ saveState' = "resolved"
  /\ UNCHANGED <<calcVars, normVars, store, loadState, getResult, loaded,
                 saveArg, setCalls>>

NextStore ==
  \/ getSnoozePresets
  \/ GetCallback
  \/ setSnoozePresets
  \/ resetSnoozePresets
  \/ StoreWrite
  \/ SetCallback

SpecStore == InitStore /\ [][NextStore]_vars

\* ------------------------------------- vocabulary of the properties

\* The preset in hand is a rule preset with rule r.
IsRule(r) ==
  /\ Has(preset, "kind") /\ preset.kind = "rule"
  /\ Has(preset, "rule") /\ preset.rule = r

\* The instant of local day `day` at the time of day written hhmm.
At(day, hhmm) ==
  day * MsPerDay + ParseHM(hhmm).h * MsPerHour + ParseHM(hhmm).m * MsPerMinute

Today == nowMs \div MsPerDay

Weekday(day) == day % 7

WakeDay == wakeTime[1] \div MsPerDay

\* Both results are in hand, the title rendered with nowMs.
BothDone == wakeTime # <<>> /\ title # <<>> /\ titleWithNow

\* ----------------------------------------------------------- C1

\* C1: for the 'weekend' rule the wake time is strictly greater than nowMs,
\* also when nowMs is the startOfWeekend weekday exactly at startOfDay.
C1_WeekendStrictlyFuture ==
  (IsRule("weekend") /\ wakeTime # <<>>) => wakeTime[1] > nowMs

\* ----------------------------------------------------------- C2

\* C2: for the 'tonight' rule, when today's endOfDay instant is not strictly
\* before nowMs the wake time is today at endOfDay; otherwise it is the next
\* calendar day at endOfDay, and then strictly greater than nowMs.
C2_TonightTodayOrTomorrow ==
  (IsRule("tonight") /\ wakeTime # <<>>) =>
    IF ~(At(Today, settings.endOfDay) < nowMs)
    THEN wakeTime[1] = At(Today, settings.endOfDay)
    ELSE /\ wakeTime[1] = At(Today + 1, settings.endOfDay)
         /\ wakeTime[1] > nowMs

\* 'tonight' computed on 31 July after endOfDay: the wake time is in August.
C2_Witness ==
  /\ IsRule("tonight") /\ wakeTime # <<>>
  /\ At(Today, settings.endOfDay) < nowMs
  /\ Today = 4
  /\ wakeTime[1] = At(5, settings.endOfDay)

\* ----------------------------------------------------------- C3

\* C3: for the 'next_week' rule the wake time's calendar day is 1 to 7 days
\* after nowMs's day, exactly 7 days after when nowMs's weekday is
\* startOfWeek (before or after startOfDay), and the wake time is strictly
\* greater than nowMs.
C3_NextWeekNeverToday ==
  (IsRule("next_week") /\ wakeTime # <<>>) =>
    /\ WakeDay - Today \in 1..7
    /\ (Weekday(Today) = settings.startOfWeek => WakeDay - Today = 7)
    /\ wakeTime[1] > nowMs

\* 'next_week' computed on the startOfWeek day before startOfDay.
C3_Witness ==
  /\ IsRule("next_week") /\ wakeTime # <<>>
  /\ Weekday(Today) = settings.startOfWeek
  /\ nowMs < At(Today, settings.startOfDay)
  /\ WakeDay = Today + 7

\* ----------------------------------------------------------- C4

\* C4: the local weekday of the 'weekend' wake time is startOfWeekend, that
\* of the 'next_week' wake time is startOfWeek, and the wake time's local
\* hour and minute are those of startOfDay.
C4_TargetWeekdayAndTime ==
  LET hm == ParseHM(settings.startOfDay)
      wakeHour == (wakeTime[1] % MsPerDay) \div MsPerHour
      wakeMinute == ((wakeTime[1] % MsPerDay) % MsPerHour) \div MsPerMinute
  IN /\ (IsRule("weekend") /\ wakeTime # <<>>) =>
          /\ Weekday(WakeDay) = settings.startOfWeekend
          /\ wakeHour = hm.h /\ wakeMinute = hm.m
     /\ (IsRule("next_week") /\ wakeTime # <<>>) =>
          /\ Weekday(WakeDay) = settings.startOfWeek
          /\ wakeHour = hm.h /\ wakeMinute = hm.m

\* 'weekend' computed with different startOfWeekend and startOfWeek, the
\* target day lying in the month after nowMs's.
C4_Witness ==
  /\ IsRule("weekend") /\ wakeTime # <<>>
  /\ settings.startOfWeekend # settings.startOfWeek
  /\ Today < 5 /\ WakeDay >= 5
  /\ Weekday(WakeDay) = settings.startOfWeekend

\* ----------------------------------------------------------- C5

\* C5: for 'weekend' and 'next_week', when nowMs's weekday is the rule's
\* target weekday and today's startOfDay instant has passed (it is strictly
\* before nowMs), the wake time is exactly today + 7 days at startOfDay.
C5_SameDayAdvancedOneWeek ==
  /\ (/\ IsRule("weekend") /\ wakeTime # <<>>
      /\ Weekday(Today) = settings.startOfWeekend
      /\ At(Today, settings.startOfDay) < nowMs)
       => wakeTime[1] = At(Today + 7, settings.startOfDay)
  /\ (/\ IsRule("next_week") /\ wakeTime # <<>>
      /\ Weekday(Today) = settings.startOfWeek
      /\ At(Today, settings.startOfDay) < nowMs)
       => wakeTime[1] = At(Today + 7, settings.startOfDay)

\* 'weekend' computed on the startOfWeekend day one millisecond after
\* startOfDay.
C5_Witness ==
  /\ IsRule("weekend") /\ wakeTime # <<>>
  /\ Weekday(Today) = settings.startOfWeekend
  /\ nowMs = At(Today, settings.startOfDay) + 1
  /\ WakeDay = Today + 7

\* ----------------------------------------------------------- C6

\* C6: for a 'tonight' rule preset whose template says "Tonight", the title
\* rendered with nowMs says "Tomorrow Night" if and only if the wake time
\* computed for the same preset, settings and nowMs is on the next calendar
\* day; when the wake time is on today's date the title still says "Tonight"
\* and not "Tomorrow Night".
C6_TomorrowNightIffPushed ==
  (/\ IsRule("tonight") /\ BothDone
   /\ Includes(preset.titleTemplate, StrTonight)
   /\ ~Includes(preset.titleTemplate, StrTomorrowNight)) =>
    /\ Includes(title[1], StrTomorrowNight) <=> (WakeDay = Today + 1)
    /\ (WakeDay = Today) =>
         (Includes(title[1], StrTonight) /\ ~Includes(title[1], StrTomorrowNight))
    /\ WakeDay \in {Today, Today + 1}

\* 'tonight' after endOfDay: wake time tomorrow, title "Tomorrow Night".
C6_Witness ==
  /\ IsRule("tonight") /\ BothDone
  /\ Includes(preset.titleTemplate, StrTonight)
  /\ WakeDay = Today + 1
  /\ Includes(title[1], StrTomorrowNight)

\* ----------------------------------------------------------- C7

\* C7: whenever the title rendered with nowMs turns "This Weekend" into
\* "Next Weekend", the wake time computed for the same preset, settings and
\* nowMs is on a calendar day strictly after nowMs's day.
C7_NextWeekendIsLaterDay ==
  (/\ IsRule("weekend") /\ BothDone
   /\ Includes(preset.titleTemplate, StrThisWeekend)
   /\ ~Includes(preset.titleTemplate, StrNextWeekend)
   /\ Includes(title[1], StrNextWeekend)) =>
    WakeDay > Today

\* ----------------------------------------------------------- C8

\* The weekday d lies in the block of weekdays that starts at startOfWeekend
\* and ends the day before startOfWeek, counted cyclically (the block is
\* empty when the two settings coincide).
InWeekendSpan(d) ==
  ((d - settings.startOfWeekend + 7) % 7)
    < ((settings.startOfWeek - settings.startOfWeekend + 7) % 7)

\* C8: for a 'weekend' rule preset whose template says "This Weekend", the
\* title rendered with nowMs says "Next Weekend" exactly when nowMs's weekday
\* lies in the weekend span; otherwise it keeps "This Weekend".
C8_NextWeekendIffInSpan ==
  (/\ IsRule("weekend") /\ title # <<>> /\ titleWithNow
   /\ Includes(preset.titleTemplate, StrThisWeekend)
   /\ ~Includes(preset.titleTemplate, StrNextWeekend)) =>
    /\ Includes(title[1], StrNextWeekend) <=> InWeekendSpan(Weekday(Today))
    /\ ~InWeekendSpan(Weekday(Today)) => Includes(title[1], StrThisWeekend)
    /\ InWeekendSpan(Weekday(Today)) => ~Includes(title[1], StrThisWeekend)

\* A span that wraps past Saturday (weekend from Friday, week from Monday),
\* rendered on the Sunday: "Next Weekend".
C8_Witness ==
  /\ IsRule("weekend") /\ title # <<>> /\ titleWithNow
  /\ settings.startOfWeekend = 5 /\ settings.startOfWeek = 1
  /\ Weekday(Today) = 0
  /\ Includes(title[1], StrNextWeekend)

\* ----------------------------------------------------------- C9

\* The preset with its `relative` / `rule` property removed.
Without(obj, field) == [f \in (DOMAIN obj) \ {field} |-> obj[f]]

\* The `relative` objects and `rule` values an inactive payload may hold.
RelativePayloads == { [hours |-> 3], [hours |-> 2, days |-> 1], [days |-> 4] }

RulePayloads == {"tonight", "tomorrow", "weekend", "next_week"}

\* The presets that differ from p in the inactive payload only.
InactiveVariants(p) ==
  IF p.kind = "rule"
  THEN {Without(p, "relative")}
         \cup { Without(p, "relative") @@ ("relative" :> r) : r \in RelativePayloads }
  ELSE {Without(p, "rule")}
         \cup { Without(p, "rule") @@ ("rule" :> r) : r \in RulePayloads }

\* C9: the wake time and the title are the same for every preset that
\* differs from the one in hand only in its inactive payload.
C9_InactivePayloadIgnored ==
  /\ wakeTime # <<>> =>
       \A q \in InactiveVariants(preset) :
         calculatePresetWakeTime(q, settings, nowMs) = wakeTime[1]
  /\ title # <<>> =>
       \A q \in InactiveVariants(preset) :
         buildPresetTitle(q, settings, IF titleWithNow THEN <<nowMs>> ELSE <<>>)
           = title[1]

\* ---------------------------------------------------------- C10

\* C10: normalising the already-normalised list with the same legacy
\* override yields a list equal to it, element by element and property by
\* property (id, titleTemplate, kind, icon, relative.hours, relative.days,
\* rule).
C10_NormalizeIdempotent ==
  (renormalized # <<>> /\ legacyHours2 = legacyHours) =>
    /\ Len(renormalized[1]) = Len(normalized[1])
    /\ \A i \in 1..Len(normalized[1]) :
         LET a == normalized[1][i]
             b == renormalized[1][i]
         IN /\ \A f \in {"id", "titleTemplate", "kind", "icon", "rule"} :
                 Get(a, f) = Get(b, f)
            /\ Has(a, "relative") <=> Has(b, "relative")
            /\ Has(a, "relative") =>
                 /\ Get(a.relative, "hours") = Get(b.relative, "hours")
                 /\ Get(a.relative, "days") = Get(b.relative, "days")

\* A list whose first pass changed something (a legacy flag resolved to the
\* override 3, a missing id generated, a missing kind resolved), normalised
\* a second time with the same override.
C10_Witness ==
  /\ renormalized # <<>> /\ legacyHours2 = legacyHours /\ legacyHours = <<3>>
  /\ Len(rawPresets) = 2
  /\ Has(rawPresets[1], "relative")
  /\ Has(rawPresets[1].relative, "useSettingsLaterHours")
  /\ normalized[1][1].relative.hours = 3
  /\ ~Has(rawPresets[2], "id") /\ ~Has(rawPresets[2], "kind")
  /\ normalized[1] # rawPresets
  /\ renormalized[1] = normalized[1]

\* ---------------------------------------------------------- C11

\* C11: an input preset with no `kind` whose id matches no catalog entry is
\* normalised to a relative preset: kind 'relative', with a `relative`
\* payload and no `rule`.
C11_KindlessBecomesRelative ==
  normalized # <<>> =>
    \A i \in 1..Len(rawPresets) :
      (~Has(rawPresets[i], "kind") /\ FindDefault(rawPresets[i]) = <<>>) =>
        /\ normalized[1][i].kind = "relative"
        /\ Has(normalized[1][i], "relative")
        /\ ~Has(normalized[1][i], "rule")

\* ---------------------------------------------------------- C14

\* The entry is a relative preset (its kind, or failing that the kind of
\* its catalog match, is 'relative') with a `relative` object that makes it
\* a legacy entry: 'later_today' without hours, or any id with the
\* useSettingsLaterHours flag.
IsLegacyRelative(raw) ==
  /\ Coalesce(Get(raw, "kind"), DefGet(FindDefault(raw), "kind")) = <<"relative">>
  /\ Has(raw, "relative")
  /\ \/ (/\ Has(raw, "id") /\ raw.id = StrLaterToday
         /\ ~Has(raw.relative, "hours"))
     \/ Has(raw.relative, "useSettingsLaterHours")

\* The hours a legacy entry must end up with: the override, or 1.
LegacyTarget == IF legacyHours = <<>> THEN 1 ELSE legacyHours[1]

\* C14: a legacy relative entry is normalised to relative.hours = the
\* override (1 when there is none) with no {laterHours} token left in its
\* template, and the title rendered from the normalised entry is the legacy
\* template with every {laterHours} token showing that number.
C14_LegacyMigration ==
  normalized # <<>> =>
    \A i \in 1..Len(rawPresets) :
      (IsLegacyRelative(rawPresets[i]) /\ Has(rawPresets[i], "titleTemplate")) =>
        LET raw == rawPresets[i]
            norm == normalized[1][i]
        IN /\ norm.kind = "relative"
           /\ Has(norm.relative, "hours")
           /\ norm.relative.hours = LegacyTarget
           /\ ~Includes(norm.titleTemplate, StrLegacyToken)
           /\ buildPresetTitle(norm, settings, <<>>)
                = SubstituteTokens(
                    ReplaceAll(raw.titleTemplate, StrLegacyToken,
                               NumToString(LegacyTarget)),
                    replacements(norm, settings))

\* The unit tests' legacy later_today entry and a flagged custom entry with
\* two legacy tokens, normalised with the override 3, render as
\* 'Later (in 3h)' and 'In 3h, 3'.
C14_Witness ==
  /\ normalized # <<>>
  /\ legacyHours = <<3>>
  /\ Len(rawPresets) = 2
  /\ IsLegacyRelative(rawPresets[1])
  /\ rawPresets[1].id = StrLaterToday
  /\ Includes(rawPresets[1].titleTemplate, StrLegacyToken)
  /\ buildPresetTitle(normalized[1][1], settings, <<>>)
       = <<"L","a","t","e","r"," ","(","i","n"," ","3","h",")">>
  /\ IsLegacyRelative(rawPresets[2])
  /\ rawPresets[2].id = <<"c","u","s","t","o","m">>
  /\ buildPresetTitle(normalized[1][2], settings, <<>>)
       = <<"I","n"," ","3","h",","," ","3">>

\* ---------------------------------------------------------- C17

\* The hours and days of the preset in hand, a missing value (or a missing
\* `relative` object) counting as 0.
RelHours ==
  IF Has(preset, "relative") /\ Has(preset.relative, "hours")
  THEN preset.relative.hours ELSE 0

RelDays ==
  IF Has(preset, "relative") /\ Has(preset.relative, "days")
  THEN preset.relative.days ELSE 0

\* C17: for a relative preset the wake time is exactly
\* nowMs + hours * 3600000 + days * 86400000, with missing values counted as
\* 0 (so 0/0 gives nowMs), and it is the same under every settings value.
C17_RelativeExact ==
  (Has(preset, "kind") /\ preset.kind = "relative" /\ wakeTime # <<>>) =>
    /\ wakeTime[1] = nowMs + RelHours * MsPerHour + RelDays * MsPerDay
    /\ ((RelHours = 0 /\ RelDays = 0) => wakeTime[1] = nowMs)
    /\ \A s \in SettingsInputs :
         calculatePresetWakeTime(preset, s, nowMs) = wakeTime[1]

\* The unit tests' relative preset (2 hours, 1 day) computed from an instant
\* that is not the origin.
C17_Witness ==
  /\ Has(preset, "kind") /\ preset.kind = "relative"
  /\ RelHours = 2 /\ RelDays = 1
  /\ nowMs > 0
  /\ wakeTime = <<nowMs + 93600000>>

\* ---------------------------------------------------------- C18

\* C18: the 'tomorrow' rule gives the calendar day after nowMs's local day
\* at startOfDay, whatever the time of day of nowMs, and that instant is
\* strictly later than nowMs.
C18_TomorrowNextDay ==
  (IsRule("tomorrow") /\ wakeTime # <<>>) =>
    /\ wakeTime[1] = At(Today + 1, settings.startOfDay)
    /\ wakeTime[1] > nowMs

\* Asked on 31 July before startOfDay: the answer is 1 August, not the
\* startOfDay still ahead on 31 July.
C18_Witness ==
  /\ IsRule("tomorrow")
  /\ Today = 4
  /\ nowMs < At(Today, settings.startOfDay)
  /\ wakeTime = <<At(5, settings.startOfDay)>>

\* ---------------------------------------------------------- C16

\* The six names of the documented mapping.
MappedNames ==
  { <<"e","n","d","O","f","D","a","y">>,
    <<"s","t","a","r","t","O","f","D","a","y">>,
    <<"s","t","a","r","t","O","f","W","e","e","k","e","n","d","N","a","m","e">>,
    <<"s","t","a","r","t","O","f","W","e","e","k","N","a","m","e">>,
    <<"h","o","u","r","s">>,
    <<"d","a","y","s">> }

\* The documented value of a mapped name for the preset and settings in
\* hand.
MappedValue(name) ==
  CASE name = <<"e","n","d","O","f","D","a","y">> -> settings.endOfDay
    [] name = <<"s","t","a","r","t","O","f","D","a","y">> -> settings.startOfDay
    [] name = <<"s","t","a","r","t","O","f","W","e","e","k","e","n","d","N","a","m","e">> ->
         dayNames[settings.startOfWeekend + 1]
    [] name = <<"s","t","a","r","t","O","f","W","e","e","k","N","a","m","e">> ->
         dayNames[settings.startOfWeek + 1]
    [] name = <<"h","o","u","r","s">> ->
         IF Has(preset, "relative") /\ Has(preset.relative, "hours")
         THEN NumToString(preset.relative.hours) ELSE <<>>
    [] name = <<"d","a","y","s">> ->
         IF Has(preset, "relative") /\ Has(preset.relative, "days")
         THEN NumToString(preset.relative.days) ELSE <<>>

\* The documented substitution: each {name} token with a mapped name gives
\* its value, every other {name} token stays as written.
RECURSIVE DocumentedSubstitution(_)
DocumentedSubstitution(s) ==
  IF s = <<>> THEN <<>>
  ELSE LET n == WordRun(s, 2)
       IN IF s[1] = "{" /\ n > 0 /\ n + 2 <= Len(s) /\ s[n + 2] = "}"
          THEN (IF SubSeq(s, 2, n + 1) \in MappedNames
                THEN MappedValue(SubSeq(s, 2, n + 1))
                ELSE SubSeq(s, 1, n + 2))
                 \o DocumentedSubstitution(SubSeq(s, n + 3, Len(s)))
          ELSE <<s[1]>> \o DocumentedSubstitution(Tail(s))

\* C16: the title is the (possibly adjusted) template with every {name}
\* token of the six mapped names replaced by its value and every other
\* {name} token left verbatim, braces included.
C16_TokensMappedOrVerbatim ==
  title # <<>> =>
    title[1] = DocumentedSubstitution(
                 adjustedTemplate(preset, settings,
                                  IF titleWithNow THEN <<nowMs>> ELSE <<>>))

\* ---------------------------------------------------------- C12

\* The `snoozePresets` entry of a get result is missing or malformed: there
\* is none, or it is not a list, or it is a list with an entry that is not
\* an object.
MissingOrMalformed(result) ==
  \/ ~Has(result, "snoozePresets")
  \/ TypeOf(result.snoozePresets) # "array"
  \/ \E i \in 1..Len(result.snoozePresets.array) :
       TypeOf(result.snoozePresets.array[i]) # "object"

\* C12: once the store has called back with a result whose `snoozePresets`
\* is missing or malformed, getSnoozePresets has resolved, and resolved with
\* the catalog: it has not thrown, rejected or stayed pending.
C12_MalformedLoadsDefaults ==
  (getResult # <<>> /\ MissingOrMalformed(getResult[1])) =>
    /\ loadState = "resolved"
    /\ loaded = <<DEFAULT_SNOOZE_PRESETS>>

\* ---------------------------------------------------------- C13

\* The get result has a settings object whose laterHours is a number.
HasNumberLaterHours(result) ==
  /\ Has(result, "settings")
  /\ TypeOf(result.settings) = "object"
  /\ Has(result.settings.object, "laterHours")
  /\ TypeOf(result.settings.object.laterHours) = "number"

\* C13: the override handed to the normaliser by getSnoozePresets is
\* settings.laterHours when that is present and a number, and undefined in
\* every other case; so, when laterHours is not a number, a stored
\* later_today preset without hours is loaded with hours = 1.
C13_OverrideOnlyFromNumber ==
  loadState = "resolved" =>
    LET result == getResult[1]
    IN /\ legacyHours = IF HasNumberLaterHours(result)
                        THEN <<result.settings.object.laterHours.number>>
                        ELSE <<>>
       /\ ~HasNumberLaterHours(result) =>
            \A i \in 1..Len(rawPresets) :
              (/\ Has(rawPresets[i], "id") /\ rawPresets[i].id = StrLaterToday
               /\ Has(rawPresets[i], "relative")
               /\ ~Has(rawPresets[i].relative, "hours")) =>
                loaded[1][i].relative.hours = 1

\* ---------------------------------------------------------- C19

\* C19: when the get result has no `snoozePresets`, getSnoozePresets
\* resolves with the catalog: its five presets in order, each with the
\* catalog's template, kind, icon and payload, later_today keeping
\* hours = 1 whatever settings.laterHours is.
C19_EmptyStoreLoadsCatalog ==
  (getResult # <<>> /\ ~Has(getResult[1], "snoozePresets")) =>
    /\ loadState = "resolved"
    /\ Len(loaded[1]) = 5
    /\ \A i \in 1..5 : loaded[1][i] = DEFAULT_SNOOZE_PRESETS[i]
    /\ loaded[1][1].id = StrLaterToday
    /\ loaded[1][1].relative = [hours |-> 1]

\* The store holds settings.laterHours = 3 and no presets: the load
\* resolves with later_today at 1 hour.
C19_Witness ==
  /\ loadState = "resolved"
  /\ ~Has(getResult[1], "snoozePresets")
  /\ LegacyLaterHours(getResult[1]) = <<3>>
  /\ Len(loaded[1]) = 5
  /\ loaded[1][1].relative.hours = 1

\* ---------------------------------------------------------- C20

\* The store writes issued so far and the state of the save agree: no write
\* before the call; after it exactly one write, whose entries object has
\* the single key snoozePresets holding the list as given; the promise
\* pending while the store works on the write and resolved only when the
\* completion callback has run; an applied write in the store as issued.
SaveWritesVerbatim ==
  /\ saveState = "idle" => (setCalls = <<>> /\ setState = "none")
  /\ saveState # "idle" =>
       /\ Len(setCalls) = 1
       /\ DOMAIN setCalls[1] = {"snoozePresets"}
       /\ TypeOf(setCalls[1].snoozePresets) = "array"
       /\ Len(setCalls[1].snoozePresets.array) = Len(saveArg[1])
       /\ \A i \in 1..Len(saveArg[1]) :
            setCalls[1].snoozePresets.array[i] = [object |-> saveArg[1][i]]
  /\ saveState = "pending" => setState \in {"issued", "applied"}
  /\ saveState = "resolved" => setState = "done"
  /\ setState \in {"applied", "done"} =>
       (Has(store, "snoozePresets") /\ store.snoozePresets = setCalls[1].snoozePresets)

\* A step that resolves the promise of setSnoozePresets is a step in which
\* the store invokes the completion callback of an applied write.
ResolvedByCallback ==
  (saveState' = "resolved" /\ saveState # "resolved")
    => (setState = "applied" /\ setState' = "done" /\ UNCHANGED setCalls)

\* C20: setSnoozePresets(list) issues exactly one store write, whose
\* entries object has the single key snoozePresets holding the list as
\* given (not normalised), and its promise is resolved only by the store
\* invoking the completion callback of that write, never before.
C20_SaveWritesVerbatimThenResolves ==
  []SaveWritesVerbatim /\ [][ResolvedByCallback]_vars

\* A list that is not in normal form has been saved: the store holds it as
\* given, legacy token included, and the promise is resolved.
C20_Witness ==
  /\ saveState = "resolved"
  /\ setState = "done"
  /\ saveArg = << <<LegacyLaterToday>> >>
  /\ store.snoozePresets = [array |-> << [object |-> LegacyLaterToday] >>]
  /\ Includes(store.snoozePresets.array[1].object.titleTemplate, StrLegacyToken)

\* ---------------------------------------------------------- C15

CatalogIds ==
  { DEFAULT_SNOOZE_PRESETS[i].id : i \in 1..Len(DEFAULT_SNOOZE_PRESETS) }

\* The output list has the length of the input list, the id of each input
\* entry that has one at the same position, and no catalog id that the
\* input lacks.
DeletionRespected(input, output) ==
  /\ Len(output) = Len(input)
  /\ \A i \in 1..Len(input) :
       Has(input[i], "id") => output[i].id = input[i].id
  /\ \A j \in 1..Len(output) :
       output[j].id \in CatalogIds =>
         \E i \in 1..Len(input) : Has(input[i], "id") /\ input[i].id = output[j].id

\* C15: normalising a list keeps its length and its ids in order and
\* reintroduces no catalog id the list lacks, both for the normaliser call
\* itself and for the list getSnoozePresets resolves with when the store
\* holds a list.
C15_DeletionRespected ==
  /\ normalized # <<>> => DeletionRespected(rawPresets, normalized[1])
  /\ (/\ loadState = "resolved"
      /\ Has(getResult[1], "snoozePresets")
      /\ TypeOf(getResult[1].snoozePresets) = "array") =>
       DeletionRespected(
         [i \in 1..Len(getResult[1].snoozePresets.array) |->
            AsPreset(getResult[1].snoozePresets.array[i])],
         loaded[1])

\* The store held the catalog's tonight and an entry without id: the load
\* gives two presets, tonight first, and no later_today.
C15_Witness ==
  /\ loadState = "resolved"
  /\ Has(getResult[1], "snoozePresets")
  /\ TypeOf(getResult[1].snoozePresets) = "array"
  /\ Len(getResult[1].snoozePresets.array) = 2
  /\ getResult[1].snoozePresets.array[1] = [object |-> DEFAULT_SNOOZE_PRESETS[2]]
  /\ ~Has(getResult[1].snoozePresets.array[2].object, "id")
  /\ Len(loaded[1]) = 2
  /\ loaded[1][1].id = DEFAULT_SNOOZE_PRESETS[2].id
  /\ \A j \in 1..2 : loaded[1][j].id # StrLaterToday

\* ---------------------------------------------------------- C21

\* The list is in normal form: normalising it under some override gives it
\* back.
AlreadyNormalised(list) ==
  \E a \in LegacyInputs, d \in DateNowInputs :
    normalizeSnoozePresets(list, a, d) = list

\* C21: normalising a normalised list again, under any second override,
\* changes nothing; hence a load that reads a saved list that was in normal
\* form resolves with that same list, whatever settings.laterHours is at
\* the load.
C21_RoundTripStable ==
  /\ renormalized # <<>> => renormalized[1] = normalized[1]
  /\ (/\ loadState = "resolved"
      /\ saveState # "idle"
      /\ AlreadyNormalised(saveArg[1])
      /\ Has(getResult[1], "snoozePresets")
      /\ getResult[1].snoozePresets = PresetsToJs(saveArg[1])) =>
       loaded[1] = saveArg[1]

\* A list normalised under no override (the legacy later_today at 1 hour)
\* was saved, the save completed, and a load under settings.laterHours = 3
\* read it back unchanged.
C21_Witness ==
  /\ saveState = "resolved"
  /\ loadState = "resolved"
  /\ saveArg[1] \in LoadedListInputs
  /\ \E i \in 1..Len(saveArg[1]) :
       /\ saveArg[1][i].id = StrLaterToday
       /\ saveArg[1][i].relative.hours = 1
       /\ Includes(saveArg[1][i].titleTemplate, StrHoursToken)
  /\ Has(getResult[1], "snoozePresets")
  /\ getResult[1].snoozePresets = PresetsToJs(saveArg[1])
  /\ legacyHours = <<3>>
  /\ loaded[1] = saveArg[1]

\* ---------------------------------------------------------- C22

\* The preset is a well-formed tagged variant: kind 'relative' with a
\* `relative` payload and no `rule`, or kind 'rule' with a `rule` and no
\* `relative`; and its template holds no {laterHours} token.
WellFormed(p) ==
  /\ Has(p, "kind")
  /\ p.kind \in {"relative", "rule"}
  /\ p.kind = "relative" => (Has(p, "relative") /\ ~Has(p, "rule"))
  /\ p.kind = "rule" => (Has(p, "rule") /\ ~Has(p, "relative"))
  /\ Has(p, "titleTemplate")
  /\ ~Includes(p.titleTemplate, StrLegacyToken)

\* C22: every preset the normaliser produces is a well-formed tagged
\* variant without a {laterHours} token, whatever the input carried.
C22_OutputWellFormed ==
  /\ normalized # <<>> =>
       \A i \in 1..Len(normalized[1]) : WellFormed(normalized[1][i])
  /\ renormalized # <<>> =>
       \A i \in 1..Len(renormalized[1]) : WellFormed(renormalized[1][i])

\* A 'tonight' entry with a stale relative payload and a flagged relative
\* entry with legacy tokens have been normalised: the payload and the
\* tokens are gone.
C22_Witness ==
  /\ normalized # <<>>
  /\ Len(rawPresets) = 2
  /\ Has(rawPresets[1], "kind") /\ rawPresets[1].kind = "rule"
  /\ Has(rawPresets[1], "relative")
  /\ normalized[1][1].kind = "rule"
  /\ normalized[1][1].rule = "tonight"
  /\ ~Has(normalized[1][1], "relative")
  /\ Has(rawPresets[2], "titleTemplate")
  /\ Includes(rawPresets[2].titleTemplate, StrLegacyToken)
  /\ normalized[1][2].kind = "relative"
  /\ ~Includes(normalized[1][2].titleTemplate, StrLegacyToken)

====
